---------------------------- MODULE Spec2Model ----------------------------
(***************************************************************************)
(* A model of btrfs-heatmap's rendering core (src/heatmap.py): the curve   *)
(* generators hilbert / linear / snake, choose_order_size, the Grid fill   *)
(* engine with its pixel compositor, and write_png / _write_png.           *)
(*                                                                         *)
(* Numbers: bytes_per_pixel = total_bytes / num_steps and every coverage   *)
(* fraction are kept as exact rationals.  A coverage fraction is stored as *)
(* its numerator over the denominator total_bytes; a used fraction as its  *)
(* numerator over UsedDen; min_brightness as its numerator over            *)
(* MinBrightnessDen.                                                       *)
(***************************************************************************)
EXTENDS Integers, Sequences, FiniteSets, TLC

(***************************************************************************)
(* Bounds of the model.                                                    *)
(***************************************************************************)
MaxCurveOrder == 3      \* orders 0..MaxCurveOrder are walked in SpecCurve

None == <<>>            \* Python's None for an optional argument
Some(v) == <<v>>        \* a supplied argument
IsNone(a) == a = <<>>
Val(a) == a[1]

RECURSIVE Pow(_, _)
Pow(b, e) == IF e <= 0 THEN 1 ELSE b * Pow(b, e - 1)

Abs(n) == IF n < 0 THEN -n ELSE n

(***************************************************************************)
(* hilbert(): the unit moves, the eight orientations and the inception     *)
(* table.  A move is <<dy, dx>>.                                           *)
(***************************************************************************)
U == <<-1, 0>>
R == <<0, 1>>
D == <<1, 0>>
L == <<0, -1>>

URDR == <<U, R, D, R>>
RULU == <<R, U, L, U>>
URDD == <<U, R, D, D>>
LDRR == <<L, D, R, R>>
RULL == <<R, U, L, L>>
DLUU == <<D, L, U, U>>
LDRD == <<L, D, R, D>>
DLUL == <<D, L, U, L>>

inception(steps) ==
    CASE steps = URDR -> <<RULU, URDR, URDD, LDRR>>
      [] steps = RULU -> <<URDR, RULU, RULL, DLUU>>
      [] steps = URDD -> <<RULU, URDR, URDD, LDRD>>
      [] steps = LDRR -> <<DLUL, LDRD, LDRR, URDR>>
      [] steps = RULL -> <<URDR, RULU, RULL, DLUL>>
      [] steps = DLUU -> <<LDRD, DLUL, DLUU, RULU>>
      [] steps = LDRD -> <<DLUL, LDRD, LDRR, URDD>>
      [] steps = DLUL -> <<LDRD, DLUL, DLUU, RULL>>

(* walk(steps, level): the moves applied between the yields, in order.  At *)
(* level <= 1 (so also at level 0) the four moves of `steps`; above, the   *)
(* four sub-orientations in turn.                                          *)
RECURSIVE walk(_, _)
walk(steps, level) ==
    IF level > 1
    THEN LET sub == inception(steps)
         IN  walk(sub[1], level - 1) \o walk(sub[2], level - 1)
             \o walk(sub[3], level - 1) \o walk(sub[4], level - 1)
    ELSE steps

(***************************************************************************)
(* A generator object: kind, order, k = the number of values yielded so    *)
(* far, pos = <<y, x, l>> as last yielded (for hilbert before the first    *)
(* yield: the start position), done = it has raised StopIteration.         *)
(***************************************************************************)
hilbert(order) ==
    [kind |-> "hilbert", order |-> order, k |-> 0,
     pos |-> <<Pow(2, order) - 1, 0, 0>>, done |-> FALSE]

linear(order) ==
    [kind |-> "linear", order |-> order, k |-> 0,
     pos |-> <<0, 0, 0>>, done |-> FALSE]

snake(order) ==
    [kind |-> "snake", order |-> order, k |-> 0,
     pos |-> <<0, 0, 0>>, done |-> FALSE]

curves(kind, order) ==
    CASE kind = "hilbert" -> hilbert(order)
      [] kind = "linear" -> linear(order)
      [] kind = "snake" -> snake(order)

(* One resumption of walk(): after a yield the pending move is applied to  *)
(* pos and l is incremented; the generator ends when the moves are used up.*)
hilbertNext(gen) ==
    LET moves == walk(URDR, gen.order)
    IN  IF gen.k = 0
        THEN [gen EXCEPT !.k = 1]
        ELSE LET m == moves[gen.k]
                 p == <<gen.pos[1] + m[1], gen.pos[2] + m[2], gen.pos[3] + 1>>
             IN  IF gen.k < Len(moves)
                 THEN [gen EXCEPT !.k = gen.k + 1, !.pos = p]
                 ELSE [gen EXCEPT !.pos = p, !.done = TRUE]

(* One resumption of linear(): x runs over range(edge_len) inside y.       *)
linearNext(gen) ==
    LET edge_len == Pow(2, gen.order)
        y == gen.pos[1]
        x == gen.pos[2]
        l == gen.pos[3]
    IN  IF gen.k = 0
        THEN [gen EXCEPT !.k = 1, !.pos = <<0, 0, 0>>]
        ELSE IF x + 1 < edge_len
        THEN [gen EXCEPT !.k = gen.k + 1, !.pos = <<y, x + 1, l + 1>>]
        ELSE IF y + 1 < edge_len
        THEN [gen EXCEPT !.k = gen.k + 1, !.pos = <<y + 1, 0, l + 1>>]
        ELSE [gen EXCEPT !.pos = <<y, x, l + 1>>, !.done = TRUE]

(* One resumption of snake(): for y in range(0, edge_len, 2) an ascending  *)
(* row at y, then y += 1 and a descending row, whatever edge_len is.       *)
snakeNext(gen) ==
    LET edge_len == Pow(2, gen.order)
        y == gen.pos[1]
        x == gen.pos[2]
        l == gen.pos[3]
    IN  IF gen.k = 0
        THEN [gen EXCEPT !.k = 1, !.pos = <<0, 0, 0>>]
        ELSE IF y % 2 = 0
        THEN IF x + 1 < edge_len
             THEN [gen EXCEPT !.k = gen.k + 1, !.pos = <<y, x + 1, l + 1>>]
             ELSE [gen EXCEPT !.k = gen.k + 1, !.pos = <<y + 1, edge_len - 1, l + 1>>]
        ELSE IF x - 1 >= 0
             THEN [gen EXCEPT !.k = gen.k + 1, !.pos = <<y, x - 1, l + 1>>]
             ELSE IF y + 1 < edge_len
             THEN [gen EXCEPT !.k = gen.k + 1, !.pos = <<y + 1, 0, l + 1>>]
             ELSE [gen EXCEPT !.pos = <<y, x, l + 1>>, !.done = TRUE]

(* next(gen): the generator after one more resumption; gen.done tells      *)
(* StopIteration, otherwise gen.pos is the value yielded.                  *)
next(gen) ==
    IF gen.done THEN gen
    ELSE CASE gen.kind = "hilbert" -> hilbertNext(gen)
           [] gen.kind = "linear" -> linearNext(gen)
           [] gen.kind = "snake" -> snakeNext(gen)

(***************************************************************************)
(* choose_order_size.  ceil(log2(sqrt(total_bytes / granularity))) is the  *)
(* least integer k with 4^k >= total_bytes / granularity; it is negative   *)
(* when total_bytes * 4 <= granularity.                                    *)
(***************************************************************************)
OrderCap == 10          \* min(10, ...): the largest derived order
DefaultSize == 10       \* the size when none is given and order <= 10

RECURSIVE CeilLog4Up(_, _, _)
CeilLog4Up(total_bytes, granularity, k) ==
    IF granularity * Pow(4, k) >= total_bytes THEN k
    ELSE CeilLog4Up(total_bytes, granularity, k + 1)

RECURSIVE CeilLog4Down(_, _, _)
CeilLog4Down(total_bytes, granularity, j) ==
    IF total_bytes * Pow(4, j + 1) <= granularity
    THEN CeilLog4Down(total_bytes, granularity, j + 1)
    ELSE -j

CeilLog2Sqrt(total_bytes, granularity) ==
    IF total_bytes >= granularity
    THEN CeilLog4Up(total_bytes, granularity, 0)
    ELSE CeilLog4Down(total_bytes, granularity, 0)

Min(a, b) == IF a <= b THEN a ELSE b

(* The order derived when none is given (lines 497-499).                   *)
derive_order(total_bytes, default_granularity) ==
    Min(OrderCap, CeilLog2Sqrt(total_bytes, default_granularity))

(* The size chosen when none is given (lines 500-504).                     *)
default_size(order) == IF order > DefaultSize THEN order ELSE DefaultSize

(* resolve_conflict without the clamp of line 507.                         *)
resolve_conflict_noclamp(order_was_none, order, size) ==
    IF size < order /\ ~order_was_none
    THEN [raised |-> "HeatmapError", order |-> order, size |-> size]
    ELSE [raised |-> "none", order |-> order, size |-> size]

(* What size < order leads to (lines 505-509): the clamped order, or the   *)
(* HeatmapError.                                                           *)
resolve_conflict(order_was_none, order, size) ==
    IF size < order
    THEN IF order_was_none
         THEN [raised |-> "none", order |-> size, size |-> size]
         ELSE [raised |-> "HeatmapError", order |-> order, size |-> size]
    ELSE [raised |-> "none", order |-> order, size |-> size]

(* order and size are None or Some(n).  The result carries raised =       *)
(* "HeatmapError" when the call raises, and the returned pair otherwise.   *)
choose_order_size(order, size, total_bytes, default_granularity) ==
    LET order_was_none == IsNone(order)
        order1 == IF order_was_none
                  THEN derive_order(total_bytes, default_granularity)
                  ELSE Val(order)
        size1 == IF IsNone(size) THEN default_size(order1) ELSE Val(size)
    IN  resolve_conflict(order_was_none, order1, size1)

(***************************************************************************)
(* Colours.  struct !BBB packs a colour into its three bytes; a byte       *)
(* string is modelled as the sequence of its byte values, and packing a    *)
(* value outside 0..255 raises struct.error).                              *)
(***************************************************************************)
black == <<0, 0, 0>>
white == <<255, 255, 255>>
p_red == <<202, 83, 92>>

UsedDen == 2            \* used fractions are u / UsedDen, u in 0..UsedDen
MinBrightnessDen == 10  \* min_brightness is m / 10; the default 0.1 is 1 / 10
DefaultMinBrightness == 1

(* int(round(n / d)) for n >= 0, d > 0: Python 3 rounds halves to even.    *)
Round(n, d) ==
    LET q == n \div d
        r == n % d
    IN  IF 2 * r < d THEN q
        ELSE IF 2 * r > d THEN q + 1
        ELSE IF q % 2 = 0 THEN q ELSE q + 1

RECURSIVE SumSeq(_)
SumSeq(seq) == IF seq = <<>> THEN 0 ELSE Head(seq) + SumSeq(Tail(seq))

(* struct_color.pack of a colour: the bytes, or struct.error.                 *)
pack(color) ==
    IF \A i \in 1..3 : color[i] \in 0..255
    THEN [raised |-> "none", rgbytes |-> color]
    ELSE [raised |-> "struct.error", rgbytes |-> <<>>]

(***************************************************************************)
(* The Grid object.  `s` below is the record of its attributes; s.raised   *)
(* is the exception that is propagating ("none": none), after which no     *)
(* further statement runs.  s.added is a history of every call of          *)
(* _add_to_pixel_mix: the entry and the cursor's linear index.             *)
(* A mix entry is [color, used_pct, pixel_pct], pixel_pct being the        *)
(* numerator over total_bytes.                                             *)
(***************************************************************************)
Then(s, F(_)) == IF s.raised = "none" THEN F(s) ELSE s

(* R_composite, G_composite, B_composite (lines 238-240), c = 1, 2, 3, as  *)
(* a numerator over total_bytes.                                           *)
channel_composite(pixel_mix, c) ==
    SumSeq([i \in 1..Len(pixel_mix) |-> pixel_mix[i].color[c] * pixel_mix[i].pixel_pct])

(* weighted_usage (lines 242-243), numerator over UsedDen * total_bytes.   *)
weighted_usage(pixel_mix) ==
    SumSeq([i \in 1..Len(pixel_mix) |-> pixel_mix[i].used_pct * pixel_mix[i].pixel_pct])

(* min_brightness + weighted_usage * (1 - min_brightness) (lines 244-245), *)
(* numerator over MinBrightnessDen * UsedDen * total_bytes.                *)
weighted_usage_min_bright(pixel_mix, min_brightness, total_bytes) ==
    min_brightness * UsedDen * total_bytes
    + weighted_usage(pixel_mix) * (MinBrightnessDen - min_brightness)

(* The tuple RGB of lines 247-251: each channel times the brightness,      *)
(* rounded; den is the product of the two denominators.                    *)
rounded_RGB(R_composite, G_composite, B_composite, bright, den) ==
    <<Round(R_composite * bright, den), Round(G_composite * bright, den),
      Round(B_composite * bright, den)>>

(* The RGB triple of lines 238-251, before it is packed.                   *)
composite(pixel_mix, min_brightness, total_bytes) ==
    rounded_RGB(channel_composite(pixel_mix, 1), channel_composite(pixel_mix, 2),
                channel_composite(pixel_mix, 3),
                weighted_usage_min_bright(pixel_mix, min_brightness, total_bytes),
                total_bytes * MinBrightnessDen * UsedDen * total_bytes)

(* _add_color_cache: pack, then remember.                                  *)
add_color_cache(s, color) ==
    LET p == pack(color)
    IN  IF p.raised # "none" THEN [s EXCEPT !.raised = p.raised]
        ELSE [s EXCEPT !.color_cache = s.color_cache \cup {color}]

(* _pixel_mix_to_rgbytes: the grid after the call (its cache, or the       *)
(* exception) and the bytes returned.                                      *)
cached_rgbytes(s, RGB) ==
    IF RGB \in s.color_cache
    THEN [s |-> s, rgbytes |-> RGB]
    ELSE [s |-> add_color_cache(s, RGB), rgbytes |-> pack(RGB).rgbytes]

pixel_mix_to_rgbytes(s) ==
    cached_rgbytes(s, composite(s.pixel_mix, s.min_brightness, s.total_bytes))

(* A Python list index: negative indices count from the end.               *)
PyIndex(i, n) == IF i < 0 THEN i + n ELSE i

(* _set_pixel: self._grid[self.y][self.x] = rgbytes.                       *)
set_pixel(s, rgbytes) ==
    LET row == PyIndex(s.y, s.height)
        col == PyIndex(s.x, s.width)
    IN  IF row \in 0..(s.height - 1) /\ col \in 0..(s.width - 1)
        THEN [s EXCEPT !.grid[row + 1][col + 1] = rgbytes]
        ELSE [s EXCEPT !.raised = "IndexError"]

(* store_pixel without lines 271-272: the mix stays pending.               *)
store_pixel_keep_mix(r) == Then(r.s, LAMBDA t : set_pixel(t, r.rgbytes))

(* Lines 267-272 of _finish_pixel, r being what _pixel_mix_to_rgbytes gave. *)
store_pixel(r) ==
    Then(Then(r.s, LAMBDA t : set_pixel(t, r.rgbytes)),
         LAMBDA t : [t EXCEPT !.pixel_mix = <<>>, !.pixel_dirty = FALSE])

(* _finish_pixel.                                                          *)
finish_pixel(s) == store_pixel(pixel_mix_to_rgbytes(s))

(* self.y, self.x, self.linear = next(self.curve)  (line 231).             *)
take_step(s, g) ==
    IF g.done
    THEN [s EXCEPT !.curve = g, !.raised = "StopIteration"]
    ELSE [s EXCEPT !.curve = g, !.y = g.pos[1], !.x = g.pos[2], !.linear = g.pos[3]]

advance(s) == take_step(s, next(s.curve))

(* _next_pixel.                                                            *)
next_pixel(s) ==
    Then(IF s.pixel_dirty THEN finish_pixel(s) ELSE s, advance)

(* _add_to_pixel_mix.                                                      *)
add_to_pixel_mix(s, color, used_pct, pixel_pct) ==
    [s EXCEPT !.pixel_mix = Append(s.pixel_mix,
                    [color |-> color, used_pct |-> used_pct, pixel_pct |-> pixel_pct]),
              !.pixel_dirty = TRUE,
              !.added = Append(s.added,
                    [linear |-> s.linear, color |-> color, used_pct |-> used_pct,
                     pixel_pct |-> pixel_pct])]

(* check_min_brightness without the upper limit of line 220.               *)
check_min_brightness_no_upper(min_brightness) ==
    IF IsNone(min_brightness)
    THEN [raised |-> "none", value |-> DefaultMinBrightness]
    ELSE IF Val(min_brightness) < 0
    THEN [raised |-> "ValueError", value |-> DefaultMinBrightness]
    ELSE [raised |-> "none", value |-> Val(min_brightness)]

(* The min_brightness check of Grid.__init__ (lines 217-222): the          *)
(* exception, and the value stored.                                        *)
check_min_brightness(min_brightness) ==
    IF IsNone(min_brightness)
    THEN [raised |-> "none", value |-> DefaultMinBrightness]
    ELSE IF Val(min_brightness) < 0 \/ Val(min_brightness) > MinBrightnessDen
    THEN [raised |-> "ValueError", value |-> DefaultMinBrightness]
    ELSE [raised |-> "none", value |-> Val(min_brightness)]

(* The attributes as lines 202-216 set them, before _next_pixel and the    *)
(* colour cache; edge is 2 ** order.                                       *)
blank_grid(order, size, kind, total_bytes, edge) ==
    [raised |-> "none",
     order |-> order, size |-> size,
     curve |-> curves(kind, order),
     pixel_mix |-> <<>>, pixel_dirty |-> FALSE,
     y |-> 0, x |-> 0, linear |-> 0,
     height |-> edge, width |-> edge, num_steps |-> edge * edge,
     total_bytes |-> total_bytes,
     color_cache |-> {},
     grid |-> [y \in 1..edge |-> [x \in 1..edge |-> pack(black).rgbytes]],
     finished |-> FALSE,
     min_brightness |-> DefaultMinBrightness,
     added |-> <<>>]

(* Lines 199-222, c being what choose_order_size gave and m the outcome of *)
(* the min_brightness check.  With a negative order 2 ** order is a float  *)
(* and range() raises TypeError (in the first next() of linear and snake,  *)
(* at range(self.width) for hilbert).                                      *)
init_grid(c, kind, total_bytes, m) ==
    IF c.raised # "none" THEN [raised |-> c.raised]
    ELSE IF c.order < 0 THEN [raised |-> "TypeError"]
    ELSE [add_color_cache(next_pixel(blank_grid(c.order, c.size, kind, total_bytes,
                                                Pow(2, c.order))), black)
            EXCEPT !.raised = m.raised, !.min_brightness = m.value]

(* Grid.__init__ (lines 196-222).                                          *)
Grid(order, size, total_bytes, default_granularity, min_brightness, curve) ==
    init_grid(choose_order_size(order, size, total_bytes, default_granularity),
              IF IsNone(curve) THEN "hilbert" ELSE Val(curve),
              total_bytes, check_min_brightness(min_brightness))

(* pixel_of taken from the byte after: int((byte + 1) / bytes_per_pixel).  *)
pixel_of_byte_after(s, byte) == ((byte + 1) * s.num_steps) \div s.total_bytes

(* first_pixel and last_pixel of fill (lines 277-278):                     *)
(* int(b / bytes_per_pixel) = floor(b * num_steps / total_bytes).          *)
pixel_of(s, byte) == (byte * s.num_steps) \div s.total_bytes

(* length / bytes_per_pixel (line 284), numerator over total_bytes.        *)
pct_of_pixel(s, length) == length * s.num_steps

(* (bytes_per_pixel - first_byte % bytes_per_pixel) / bytes_per_pixel      *)
(* (lines 289-290), numerator over total_bytes.                            *)
pct_of_first_pixel(s, first_byte) ==
    s.total_bytes - ((first_byte * s.num_steps) % s.total_bytes)

(* pct_of_last_pixel without lines 293-294.                                *)
pct_of_last_pixel_no_wrap(s, first_byte, length) ==
    ((first_byte + length) * s.num_steps) % s.total_bytes

(* ((first_byte + length) % bytes_per_pixel) / bytes_per_pixel, and 1 when *)
(* that is 0 (lines 291-294), numerator over total_bytes.                  *)
pct_of_last_pixel(s, first_byte, length) ==
    LET p == ((first_byte + length) * s.num_steps) % s.total_bytes
    IN  IF p = 0 THEN s.total_bytes ELSE p

(* while self.linear < target: self._next_pixel()  (lines 280-281).        *)
RECURSIVE advance_to(_, _)
advance_to(s, target) ==
    IF s.raised = "none" /\ s.linear < target
    THEN advance_to(next_pixel(s), target)
    ELSE s

(* while self.linear < last_pixel - 1: _next_pixel(); _set_pixel(rgbytes)  *)
(* (lines 309-311).                                                        *)
RECURSIVE paint_to(_, _, _)
paint_to(s, target, rgbytes) ==
    IF s.raised = "none" /\ s.linear < target
    THEN paint_to(Then(next_pixel(s), LAMBDA t : set_pixel(t, rgbytes)), target, rgbytes)
    ELSE s

(* intermediate with the loop of lines 309-311 left out: only the first    *)
(* intermediate pixel is painted.                                          *)
intermediate_first_only(s, last_pixel, color, used_pct) ==
    IF s.linear < last_pixel - 1
    THEN LET s1 == Then(next_pixel(s),
                        LAMBDA t : add_to_pixel_mix(t, color, used_pct, t.total_bytes))
             r == pixel_mix_to_rgbytes(s1)
         IN  IF s1.raised # "none" THEN s1
             ELSE Then(r.s, LAMBDA t : set_pixel(t, r.rgbytes))
    ELSE s

(* Lines 305-311: the first intermediate pixel is set to rgbytes, and so   *)
(* are the others.                                                         *)
paint_all(r, last_pixel) ==
    paint_to(Then(r.s, LAMBDA t : set_pixel(t, r.rgbytes)), last_pixel - 1, r.rgbytes)

(* Lines 304-311, s1 being the grid after lines 302-303.                   *)
paint_from(s1, last_pixel) ==
    IF s1.raised # "none" THEN s1
    ELSE paint_all(pixel_mix_to_rgbytes(s1), last_pixel)

(* The intermediate pixels (lines 301-311).                                *)
intermediate(s, last_pixel, color, used_pct) ==
    IF s.linear < last_pixel - 1
    THEN paint_from(Then(next_pixel(s),
                         LAMBDA t : add_to_pixel_mix(t, color, used_pct, t.total_bytes)),
                    last_pixel)
    ELSE s

(* Lines 300-314, s2 being the grid after line 299.                        *)
fill_rest(s2, last_pixel, first_byte, length, used_pct, color) ==
    Then(Then(Then(s2, LAMBDA t : intermediate(t, last_pixel, color, used_pct)),
              next_pixel),
         LAMBDA t : add_to_pixel_mix(t, color, used_pct,
                                     pct_of_last_pixel(t, first_byte, length)))

(* Lines 283-314, s1 being the grid after the loop of lines 280-281.       *)
fill_pixels(s1, first_pixel, last_pixel, first_byte, length, used_pct, color) ==
    IF first_pixel = last_pixel
    THEN Then(s1, LAMBDA t : add_to_pixel_mix(t, color, used_pct,
                                              pct_of_pixel(t, length)))
    ELSE fill_rest(Then(s1, LAMBDA t : add_to_pixel_mix(t, color, used_pct,
                                              pct_of_first_pixel(t, first_byte))),
                   last_pixel, first_byte, length, used_pct, color)

(* Grid.fill (lines 274-314).                                              *)
fill(s, first_byte, length, used_pct, color) ==
    IF s.finished THEN [s EXCEPT !.raised = "Exception"]
    ELSE fill_pixels(advance_to(s, pixel_of(s, first_byte)),
                     pixel_of(s, first_byte), pixel_of(s, first_byte + length - 1),
                     first_byte, length, used_pct, color)

(* The row stream of lines 324-325: every element `scale` times.           *)
RECURSIVE repeat(_, _)
repeat(e, n) == IF n <= 0 THEN <<>> ELSE <<e>> \o repeat(e, n - 1)

RECURSIVE stretch(_, _)
stretch(seq, scale) ==
    IF seq = <<>> THEN <<>>
    ELSE repeat(Head(seq), scale) \o stretch(Tail(seq), scale)

(* upscale with the rows stretched but not repeated.                       *)
upscale_rows_once(grid, scale) ==
    [y \in 1..Len(grid) |-> stretch(grid[y], scale)]

upscale(grid, scale) ==
    stretch([y \in 1..Len(grid) |-> stretch(grid[y], scale)], scale)

(* _write_png (lines 533-566), as the sequence of its file operations:    *)
(* open, the signature and IHDR writes, tell, the IDAT header and the row  *)
(* loop, the flush / CRC / IEND writes, seek, the length write, close.     *)
(* `fail` names the operation that raises ("none": none does); the         *)
(* operations before it have run, those after it have not.  The result:    *)
(* the exception, the state of the handle `out` when the function is left, *)
(* the operations completed, and the image the encoder was given.          *)
IOSteps == <<"open", "header", "tell", "rows", "trailer", "seek", "patch", "close">>

FailPoints == {"none", "open", "header", "tell", "rows", "seek"}

RECURSIVE completed(_, _)
completed(ops, fail) ==
    IF ops = <<>> \/ Head(ops) = fail THEN <<>>
    ELSE <<Head(ops)>> \o completed(Tail(ops), fail)

ran(done, op) == \E i \in 1..Len(done) : done[i] = op

write_png_file(width, height, rows, fail) ==
    LET done == completed(IOSteps, fail)
    IN  [raised |-> IF fail = "none" THEN "none" ELSE "OSError",
         out |-> IF ~ran(done, "open") THEN "none"
                 ELSE IF ran(done, "close") THEN "closed" ELSE "open",
         done |-> done,
         width |-> width, height |-> height, rows |-> rows]

(* The first half of Grid.write_png (lines 318-321): finalization.         *)
finalize(s) ==
    IF ~s.finished
    THEN Then(IF s.pixel_dirty THEN finish_pixel(s) ELSE s,
              LAMBDA t : [t EXCEPT !.finished = TRUE])
    ELSE s

(* The second half (lines 322-328): what is handed to _write_png.          *)
export(s, fail) ==
    IF s.size > s.order
    THEN LET scale == Pow(2, s.size - s.order)
         IN  write_png_file(s.width * scale, s.height * scale,
                            upscale(s.grid, scale), fail)
    ELSE write_png_file(s.width, s.height, s.grid, fail)

VARIABLES
    gen,        \* SpecCurve: the generator being consumed
    steps,      \* SpecCurve: the steps it has yielded, in generation order
    chooseArgs, \* SpecChoose: the arguments of a choose_order_size call
    chooseRes,  \* SpecChoose: None before the call, Some(result) after it
    args,       \* the arguments Grid(...) is called with
    phase,      \* "args": before Grid(...); "grid": constructed; "failed": it raised
    self,       \* the Grid object's attributes
    byte_offset, \* the caller's offset: the end of the last range it filled
    nfills,     \* fill calls made on the unfinished grid
    nwrites,    \* write_png calls made
    fills,      \* the fill calls made on the unfinished grid, in order
    lastCall,   \* the last call on the grid, its arguments and the grid before it
    png         \* what the last write_png handed to _write_png, and the handle

vars == <<gen, steps, chooseArgs, chooseRes, args, phase, self, byte_offset,
          nfills, nwrites, fills, lastCall, png>>

curveVars == <<gen, steps>>
chooseVars == <<chooseArgs, chooseRes>>
gridVars == <<args, phase, self, byte_offset, nfills, nwrites, fills, lastCall, png>>

(***************************************************************************)
(* Bounds and input sets.                                                  *)
(***************************************************************************)
MaxChooseOrder == 12    \* explicit order and size run over 0..MaxChooseOrder
MaxOrder == 1           \* Grid: explicit orders 0..MaxOrder
MaxSize == 2            \* Grid: explicit sizes 0..MaxSize
MaxTotalBytes == 5      \* Grid: total_bytes in 1..MaxTotalBytes
MaxFills == 2           \* fill calls on one grid before it is finished
MaxWrites == 2          \* write_png calls on one grid

CurveKinds == {"hilbert", "linear", "snake"}
FillStyles == {<<1, p_red>>, <<UsedDen, white>>}  \* <<used_pct, color>> of a fill
ChooseBytes == {1, 2, 4, 5, 16, 17, 64, 65, Pow(4, 9), Pow(4, 9) + 1, Pow(4, 10), Pow(4, 11)}
ChooseGranularities == {1, 2, 4, 16}
Granularities == {1, 4}
CurveArgs == {None, Some("linear"), Some("snake")}   \* None: hilbert
MinBrightnesses == {None, Some(-1), Some(0), Some(MinBrightnessDen), Some(15)}

Opt(S) == {None} \cup {Some(v) : v \in S}

NoCurve == [kind |-> "none", order |-> 0, k |-> 0, pos |-> <<0, 0, 0>>, done |-> TRUE]
NoCall == [op |-> "none", raised |-> "none", first_byte |-> 0, length |-> 0,
           used_pct |-> 0, color |-> black, before |-> None]
NoGrid == [raised |-> "none"]

CurveIdle == gen = NoCurve /\ steps = <<>>
ChooseIdle == chooseArgs = None /\ chooseRes = None
GridIdle ==
    /\ args = None /\ phase = "none" /\ self = NoGrid /\ byte_offset = 0
    /\ nfills = 0 /\ nwrites = 0 /\ fills = <<>> /\ lastCall = NoCall /\ png = None

(***************************************************************************)
(* SpecCurve: a generator of any kind and order is consumed step by step.  *)
(***************************************************************************)
InitCurve ==
    /\ \E kind \in CurveKinds, order \in 0..MaxCurveOrder : gen = curves(kind, order)
    /\ steps = <<>>
    /\ ChooseIdle /\ GridIdle

CurveStep ==
    /\ ~gen.done
    /\ gen' = next(gen)
    /\ steps' = IF gen'.done THEN steps ELSE Append(steps, gen'.pos)
    /\ UNCHANGED <<chooseVars, gridVars>>

NextCurve == CurveStep

SpecCurve == InitCurve /\ [][NextCurve]_vars

(***************************************************************************)
(* SpecChoose: choose_order_size on its own.                               *)
(***************************************************************************)
InitChoose ==
    /\ \E order \in Opt(0..MaxChooseOrder), size \in Opt(0..MaxChooseOrder),
          total_bytes \in ChooseBytes, granularity \in ChooseGranularities :
            chooseArgs = Some([order |-> order, size |-> size,
                               total_bytes |-> total_bytes,
                               default_granularity |-> granularity])
    /\ chooseRes = None
    /\ CurveIdle /\ GridIdle

Choose ==
    /\ chooseArgs # None /\ chooseRes = None
    /\ LET a == Val(chooseArgs)
       IN  chooseRes' = Some(choose_order_size(a.order, a.size, a.total_bytes,
                                               a.default_granularity))
    /\ UNCHANGED <<chooseArgs, curveVars, gridVars>>

NextChoose == Choose

SpecChoose == InitChoose /\ [][NextChoose]_vars

(***************************************************************************)
(* Spec: a Grid is constructed, filled by a caller that hands it           *)
(* ascending, non-overlapping ranges inside [0, total_bytes), and written. *)
(* The constructor consumes its arguments: afterwards they are kept only   *)
(* in lastCall, until the next call.                                       *)
(***************************************************************************)
GridArgs ==
    {[order |-> o, size |-> Some(z), total_bytes |-> t, default_granularity |-> g,
      min_brightness |-> m, curve |-> c] :
        o \in Opt(0..MaxOrder), z \in 0..MaxSize, t \in 1..MaxTotalBytes,
        g \in Granularities, m \in MinBrightnesses, c \in CurveArgs}

Init ==
    /\ args \in {Some(a) : a \in {b \in GridArgs :
                    b.order # None => b.default_granularity = 1}}
    /\ phase = "args"
    /\ self = NoGrid /\ byte_offset = 0 /\ nfills = 0 /\ nwrites = 0
    /\ fills = <<>> /\ lastCall = NoCall /\ png = None
    /\ CurveIdle /\ ChooseIdle

Constructed(s) ==
    /\ self' = s
    /\ phase' = IF s.raised = "none" THEN "grid" ELSE "failed"
    /\ lastCall' = [NoCall EXCEPT !.op = "init", !.raised = s.raised, !.before = args]

GridOf(a) ==
    Grid(a.order, a.size, a.total_bytes, a.default_granularity, a.min_brightness, a.curve)

Construct ==
    /\ phase = "args"
    /\ Constructed(GridOf(Val(args)))
    /\ args' = None
    /\ UNCHANGED <<byte_offset, nfills, nwrites, fills, png, curveVars, chooseVars>>

(* One fill call.  The exception it raises, if any, is taken from the      *)
(* object into lastCall.raised; the object stays usable.                   *)
Filled(s, call) ==
    /\ self' = [s EXCEPT !.raised = "none"]
    /\ lastCall' = [call EXCEPT !.op = "fill", !.raised = s.raised,
                                !.before = Some(self)]

Fill(first_byte, length, used_pct, color) ==
    /\ phase = "grid"
    /\ nfills < MaxFills
    /\ ~self.finished
    /\ length >= 1
    /\ first_byte >= byte_offset
    /\ first_byte + length <= self.total_bytes
    /\ Filled(fill(self, first_byte, length, used_pct, color),
              [NoCall EXCEPT !.first_byte = first_byte, !.length = length,
                             !.used_pct = used_pct, !.color = color])
    /\ byte_offset' = first_byte + length
    /\ nfills' = nfills + 1
    /\ fills' = Append(fills, [first_byte |-> first_byte, length |-> length,
                               used_pct |-> used_pct, color |-> color,
                               raised |-> lastCall'.raised])
    /\ UNCHANGED <<args, phase, nwrites, png, curveVars, chooseVars>>

(* A fill call on a finished grid, with any arguments.                     *)
FillFinished(first_byte, length, used_pct, color) ==
    /\ phase = "grid"
    /\ self.finished
    /\ Filled(fill(self, first_byte, length, used_pct, color), NoCall)
    /\ UNCHANGED <<args, phase, byte_offset, nfills, nwrites, fills, png, curveVars, chooseVars>>

(* One write_png call; the file system may fail at `fail`.                 *)
Exported(w) ==
    /\ png' = Some(w)
    /\ lastCall' = [NoCall EXCEPT !.op = "write_png", !.raised = w.raised,
                                  !.before = Some(self)]

Written(s, fail) ==
    /\ self' = [s EXCEPT !.raised = "none"]
    /\ IF s.raised # "none"
       THEN /\ png' = png
            /\ lastCall' = [NoCall EXCEPT !.op = "write_png", !.raised = s.raised,
                                          !.before = Some(self)]
       ELSE Exported(export(s, fail))

WritePng(fail) ==
    /\ phase = "grid"
    /\ nwrites < MaxWrites
    /\ Written(finalize(self), fail)
    /\ nwrites' = nwrites + 1
    /\ UNCHANGED <<args, phase, byte_offset, nfills, fills, curveVars, chooseVars>>

Next ==
    \/ Construct
    \/ \E first_byte \in 0..(MaxTotalBytes - 1), length \in 1..MaxTotalBytes,
          style \in FillStyles :
            Fill(first_byte, length, style[1], style[2])
    \/ \E first_byte \in {0, byte_offset}, style \in FillStyles :
            FillFinished(first_byte, 1, style[1], style[2])
    \/ \E fail \in FailPoints : WritePng(fail)

Spec == Init /\ [][Next]_vars

(***************************************************************************)
(* SpecAligned: grids whose bytes_per_pixel is a whole number, filled with *)
(* fully used ranges that begin and end on pixel boundaries, and written   *)
(* by a file system that does not fail.                                    *)
(***************************************************************************)
MaxBytesPerPixel == 5   \* bytes_per_pixel in 1..MaxBytesPerPixel

AlignedOrders == {0, 1}
AlignedPixels ==
    0..(Pow(4, CHOOSE o \in AlignedOrders : \A q \in AlignedOrders : q <= o) - 1)

InitAligned ==
    /\ \E o \in AlignedOrders, z \in 0..MaxSize, bpp \in 1..MaxBytesPerPixel,
          m \in MinBrightnesses, c \in CurveArgs :
            args = Some([order |-> Some(o), size |-> Some(z),
                         total_bytes |-> bpp * Pow(4, o), default_granularity |-> 1,
                         min_brightness |-> m, curve |-> c])
    /\ phase = "args"
    /\ self = NoGrid /\ byte_offset = 0 /\ nfills = 0 /\ nwrites = 0
    /\ fills = <<>> /\ lastCall = NoCall /\ png = None
    /\ CurveIdle /\ ChooseIdle

(* fill of the bytes of the pixels a..b, usage 1.0.                        *)
FillPixels(a, b, color) ==
    /\ phase = "grid"
    /\ a <= b
    /\ LET bpp == self.total_bytes \div self.num_steps
       IN  Fill(a * bpp, (b - a + 1) * bpp, UsedDen, color)

NextAligned ==
    \/ Construct
    \/ \E a \in AlignedPixels, b \in AlignedPixels, color \in {white, p_red} :
            FillPixels(a, b, color)
    \/ WritePng("none")

SpecAligned == InitAligned /\ [][NextAligned]_vars

(***************************************************************************)
(* The claims.                                                             *)
(***************************************************************************)
InGrid(step, order) ==
    /\ step[1] \in 0..(Pow(2, order) - 1)
    /\ step[2] \in 0..(Pow(2, order) - 1)

(* What a generator of `order` has yielded so far is a prefix of a         *)
(* bijection: at most 4^order steps (exactly that many once it is          *)
(* exhausted), numbered 0, 1, ... in generation order, all inside the grid *)
(* and pairwise distinct.                                                  *)
CurveContract(order) ==
    /\ Len(steps) <= Pow(4, order)
    /\ gen.done => Len(steps) = Pow(4, order)
    /\ \A i \in 1..Len(steps) : steps[i][3] = i - 1 /\ InGrid(steps[i], order)
    /\ \A i, j \in 1..Len(steps) :
          i < j => <<steps[i][1], steps[i][2]>> # <<steps[j][1], steps[j][2]>>

Adjacent(a, b) == Abs(a[1] - b[1]) + Abs(a[2] - b[2]) = 1

(* C1: for every order N >= 0, N = 0 included, hilbert(N) yields exactly   *)
(* 4^N steps with linear indices 0 .. 4^N - 1 in generation order, with    *)
(* pairwise distinct coordinates inside [0, 2^N) x [0, 2^N), and steps of  *)
(* consecutive indices are one unit apart in exactly one coordinate.       *)
C1_HilbertContract ==
    gen.kind = "hilbert" =>
        /\ CurveContract(gen.order)
        /\ \A i \in 1..(Len(steps) - 1) : Adjacent(steps[i], steps[i + 1])

(* The same for the orders N >= 1, where it holds.                         *)
HilbertContractFromOrder1 ==
    (gen.kind = "hilbert" /\ gen.order >= 1) => C1_HilbertContract

(* C2: for any order >= 0, 0 included, linear(order) and snake(order) each *)
(* yield exactly 4^order steps, a bijection between the linear indices and *)
(* the grid; linear is row-major left to right, snake runs even rows left  *)
(* to right and odd rows right to left.                                    *)
C2_RasterSnakeContract ==
    gen.kind \in {"linear", "snake"} =>
        LET e == Pow(2, gen.order)
        IN  /\ CurveContract(gen.order)
            /\ \A i \in 1..Len(steps) :
                  LET y == (i - 1) \div e
                      c == (i - 1) % e
                  IN  /\ steps[i][1] = y
                      /\ steps[i][2] = IF gen.kind = "snake" /\ y % 2 = 1
                                       THEN e - 1 - c ELSE c

(* The same for the orders >= 1, and for linear at every order.            *)
RasterSnakeContractFromOrder1 ==
    (gen.kind = "linear" \/ gen.order >= 1) => C2_RasterSnakeContract

(* C6: choose_order_size returns order <= size whenever it returns; an     *)
(* unset size becomes order if order > 10 and 10 otherwise; size < order   *)
(* clamps an auto-derived order down to size and raises HeatmapError for   *)
(* an explicit one; explicit values are otherwise returned unchanged.      *)
C6_ChooseOrderSize ==
    chooseRes # None =>
        LET a == Val(chooseArgs)
            r == Val(chooseRes)
            explicit_conflict ==
                ~IsNone(a.order) /\ ~IsNone(a.size) /\ Val(a.size) < Val(a.order)
            derived == derive_order(a.total_bytes, a.default_granularity)
        IN  /\ (r.raised = "HeatmapError") <=> explicit_conflict
            /\ r.raised \in {"none", "HeatmapError"}
            /\ r.raised = "none" =>
                /\ r.order <= r.size
                /\ IsNone(a.size) =>
                      r.size = IF r.order > 10 THEN r.order ELSE 10
                /\ ~IsNone(a.size) => r.size = Val(a.size)
                /\ ~IsNone(a.order) => r.order = Val(a.order)
                /\ IsNone(a.order) =>
                      r.order = IF r.size < derived THEN r.size ELSE derived

(* An auto-derived order that was clamped down to an explicit size.        *)
C6_Witness ==
    /\ chooseRes # None
    /\ IsNone(Val(chooseArgs).order) /\ ~IsNone(Val(chooseArgs).size)
    /\ Val(chooseRes).raised = "none"
    /\ Val(chooseRes).order = Val(Val(chooseArgs).size)
    /\ Val(chooseRes).order
         < derive_order(Val(chooseArgs).total_bytes, Val(chooseArgs).default_granularity)

(* The step a fresh generator yields for linear index p.                   *)
RECURSIVE nth_step(_, _)
nth_step(g, p) == IF p = 0 THEN next(g).pos ELSE nth_step(next(g), p - 1)

(* The <<y, x>> of the grid's curve at linear index p.                     *)
coord_at(s, p) ==
    LET st == nth_step(curves(s.curve.kind, s.order), p) IN <<st[1], st[2]>>

pixel_at(s, yx) == s.grid[yx[1] + 1][yx[2] + 1]

(* The coverage numerators ever added for the pixel of linear index p.     *)
added_for(s, p) ==
    LET idx == {i \in 1..Len(s.added) : s.added[i].linear = p}
        RECURSIVE total(_)
        total(I) == IF I = {} THEN 0
                    ELSE LET i == CHOOSE j \in I : TRUE
                         IN  s.added[i].pixel_pct + total(I \ {i})
    IN  total(idx)

(* The mix entries ever added for the pixel of linear index p, in order.   *)
RECURSIVE mix_for(_, _)
mix_for(added, p) ==
    IF added = <<>> THEN <<>>
    ELSE LET e == Head(added)
         IN  (IF e.linear = p
              THEN <<[color |-> e.color, used_pct |-> e.used_pct,
                      pixel_pct |-> e.pixel_pct]>>
              ELSE <<>>) \o mix_for(Tail(added), p)

(* C3: for any Grid, whole or fractional bytes_per_pixel, below 1 too, and *)
(* any ascending, non-overlapping fills of length >= 1 inside              *)
(* [0, total_bytes), every mix entry added has a coverage fraction in      *)
(* (0, 1] and the fractions ever added for one pixel sum to at most 1.     *)
C3_CoverageBounded ==
    phase = "grid" =>
        /\ \A i \in 1..Len(self.added) :
              /\ self.added[i].pixel_pct > 0
              /\ self.added[i].pixel_pct <= self.total_bytes
        /\ \A p \in 0..(self.num_steps - 1) : added_for(self, p) <= self.total_bytes

(* The same when bytes_per_pixel is a whole number, where it holds.        *)
CoverageBoundedWholeBpp ==
    (phase = "grid" /\ self.total_bytes % self.num_steps = 0) => C3_CoverageBounded

(* C4: the Grid becomes finalized exactly once, on the first write_png     *)
(* call, and never reverts: afterwards every fill fails with an error and  *)
(* the finalized flag, the pixel buffer, the cursor and the pending mix    *)
(* list stay unchanged.                                                    *)
C4_FinalizedOnceForGood ==
    [][phase' = "grid" =>
        /\ nwrites' = 0 => ~self'.finished
        /\ nwrites' >= 1 => self'.finished
        /\ (phase = "grid" /\ self.finished) =>
              /\ self'.finished
              /\ self'.grid = self.grid
              /\ <<self'.y, self'.x, self'.linear>> = <<self.y, self.x, self.linear>>
              /\ self'.pixel_mix = self.pixel_mix
              /\ lastCall'.op = "fill" => lastCall'.raised # "none"]_vars

(* The part of C4 that holds: a finished grid stays finished and           *)
(* unchanged, and rejects every fill.                                      *)
FinishedIsFinal ==
    [][(phase = "grid" /\ self.finished) =>
          /\ self'.finished
          /\ self'.grid = self.grid
          /\ <<self'.y, self'.x, self'.linear>> = <<self.y, self.x, self.linear>>
          /\ self'.pixel_mix = self.pixel_mix
          /\ lastCall'.op = "fill" => lastCall'.raised = "Exception"]_vars

(* C4 for the grids with a whole bytes_per_pixel, where it holds.          *)
FinalizedOnceWholeBpp ==
    [][(phase' = "grid" /\ self'.total_bytes % self'.num_steps = 0) =>
        /\ nwrites' = 0 => ~self'.finished
        /\ nwrites' >= 1 => self'.finished
        /\ (phase = "grid" /\ self.finished) =>
              /\ self'.finished
              /\ self'.grid = self.grid
              /\ <<self'.y, self'.x, self'.linear>> = <<self.y, self.x, self.linear>>
              /\ self'.pixel_mix = self.pixel_mix
              /\ lastCall'.op = "fill" => lastCall'.raised # "none"]_vars

(* C5: with a whole bytes_per_pixel, one fill of usage 1.0 and colour c    *)
(* over exactly the bytes of the pixels a..b leaves, after finalization,   *)
(* exactly the b - a + 1 pixels at the curve coordinates of a..b holding c *)
(* and every other pixel black (total_bytes = 20, bytes_per_pixel = 5,     *)
(* fill(0, 10, 1.0, white): 2 white pixels, 2 black).                      *)
C5_AlignedFill ==
    (/\ phase = "grid" /\ self.finished /\ Len(fills) = 1
     /\ self.total_bytes % self.num_steps = 0
     /\ fills[1].used_pct = UsedDen
     /\ fills[1].first_byte % (self.total_bytes \div self.num_steps) = 0
     /\ fills[1].length % (self.total_bytes \div self.num_steps) = 0)
    => LET bpp == self.total_bytes \div self.num_steps
           a == fills[1].first_byte \div bpp
           b == (fills[1].first_byte + fills[1].length) \div bpp - 1
           on == {coord_at(self, p) : p \in a..b}
       IN  /\ Cardinality(on) = b - a + 1
           /\ \A y \in 0..(self.height - 1), x \in 0..(self.width - 1) :
                 pixel_at(self, <<y, x>>) = IF <<y, x>> \in on THEN fills[1].color
                                            ELSE black

(* The scenario of C5, finalized.                                          *)
C5_Witness ==
    /\ phase = "grid" /\ self.finished
    /\ self.total_bytes = 20 /\ self.num_steps = 4
    /\ Len(fills) = 1
    /\ fills[1].first_byte = 0 /\ fills[1].length = 10
    /\ fills[1].used_pct = UsedDen /\ fills[1].color = white
    /\ Cardinality({yx \in (0..1) \X (0..1) : pixel_at(self, yx) = white}) = 2
    /\ Cardinality({yx \in (0..1) \X (0..1) : pixel_at(self, yx) = black}) = 2

OutOfRange(m) == ~IsNone(m) /\ (Val(m) < 0 \/ Val(m) > MinBrightnessDen)

(* C7: constructing a Grid with min_brightness outside [0, 1] raises       *)
(* during construction, before any pixel of the buffer has been set and    *)
(* before any fill can run; every min_brightness in [0, 1] is accepted and *)
(* an unset one becomes 0.1.  (The error is the ValueError of line 221     *)
(* unless choosing the order and size, or allocating the grid, has raised  *)
(* before it.)                                                             *)
C7_MinBrightnessChecked ==
    /\ phase = "failed" => (fills = <<>> /\ nwrites = 0 /\ png = None)
    /\ lastCall.op = "init" =>
          LET a == Val(lastCall.before)
              m == a.min_brightness
          IN  /\ OutOfRange(m) =>
                    /\ phase = "failed"
                    /\ lastCall.raised \in {"ValueError", "HeatmapError", "TypeError"}
                    /\ (~IsNone(a.order) /\ Val(a.size) >= Val(a.order)) =>
                          lastCall.raised = "ValueError"
                    /\ lastCall.raised = "ValueError" =>
                          /\ self.added = <<>>
                          /\ \A y \in 1..self.height, x \in 1..self.width :
                                self.grid[y][x] = black
              /\ ~OutOfRange(m) =>
                    /\ lastCall.raised # "ValueError"
                    /\ phase = "grid" =>
                          IF IsNone(m)
                          THEN 10 * self.min_brightness = MinBrightnessDen
                          ELSE self.min_brightness = Val(m)

(* A construction given min_brightness = 1.5 that raised the ValueError.   *)
C7_Witness ==
    /\ lastCall.op = "init"
    /\ Val(lastCall.before).min_brightness = Some(15)
    /\ lastCall.raised = "ValueError"
    /\ phase = "failed"

(* C8: _write_png opens the handle before the first write and closes it on *)
(* every exit path, after a successful encode and when a write, tell, seek *)
(* or row-iteration step fails, the failure still being propagated.        *)
C8_HandleClosed ==
    png # None =>
        LET w == Val(png)
        IN  /\ w.done # <<>> => w.done[1] = "open"
            /\ w.out # "open"
            /\ w.done # IOSteps => w.raised = "OSError"

(* The part of C8 that holds: the handle is opened first, closed after a   *)
(* successful encode, and a failure is propagated.                         *)
HandleClosedOnSuccess ==
    png # None =>
        LET w == Val(png)
        IN  /\ w.done # <<>> => w.done[1] = "open"
            /\ w.raised = "none" => w.out = "closed"
            /\ w.done # IOSteps => w.raised = "OSError"

(* C9: on export with size > order and scale = 2^(size - order), write_png *)
(* passes width * scale and height * scale and height * scale rows of      *)
(* width * scale pixels with output pixel (Y, X) = stored pixel            *)
(* (Y div scale, X div scale); with size = order it passes the stored      *)
(* buffer and (width, height).                                             *)
C9_Upscale ==
    (png # None /\ phase = "grid") =>
        LET w == Val(png)
            scale == Pow(2, self.size - self.order)
        IN  IF self.size > self.order
            THEN /\ w.width = self.width * scale
                 /\ w.height = self.height * scale
                 /\ Len(w.rows) = self.height * scale
                 /\ \A Y \in 0..(self.height * scale - 1) :
                       /\ Len(w.rows[Y + 1]) = self.width * scale
                       /\ \A X \in 0..(self.width * scale - 1) :
                             w.rows[Y + 1][X + 1]
                               = self.grid[(Y \div scale) + 1][(X \div scale) + 1]
            ELSE /\ self.size = self.order
                 /\ w.width = self.width /\ w.height = self.height
                 /\ w.rows = self.grid

(* An export of a 2 x 2 grid with a coloured and a black pixel at scale 2. *)
C9_Witness ==
    /\ png # None /\ phase = "grid"
    /\ self.order = 1 /\ self.size = 2
    /\ Val(png).width = 4
    /\ \E yx \in (0..1) \X (0..1) : pixel_at(self, yx) # black
    /\ \E yx \in (0..1) \X (0..1) : pixel_at(self, yx) = black

(* C10: after a fill of length >= 1 that obeys the caller contract has     *)
(* returned, the cursor is at lastPixel = floor((firstByte + length - 1) / *)
(* bytesPerPixel) and that pixel is pending (mix non-empty, not written by *)
(* this fill); if firstPixel < lastPixel, firstPixel has been finalized    *)
(* from its accumulated mix and every pixel strictly between has the       *)
(* colour the compositor gives for the one entry (color, used, coverage 1).*)
C10_FillLeavesLastPending ==
    (phase = "grid" /\ lastCall.op = "fill" /\ lastCall.raised = "none") =>
        LET b == Val(lastCall.before)
            firstPixel == (lastCall.first_byte * b.num_steps) \div b.total_bytes
            lastPixel == ((lastCall.first_byte + lastCall.length - 1) * b.num_steps)
                            \div b.total_bytes
            whole == <<[color |-> lastCall.color, used_pct |-> lastCall.used_pct,
                        pixel_pct |-> b.total_bytes]>>
        IN  /\ self.linear = lastPixel
            /\ <<self.y, self.x>> = coord_at(self, lastPixel)
            /\ self.pixel_mix # <<>> /\ self.pixel_dirty
            /\ self.pixel_mix = mix_for(self.added, lastPixel)
            /\ pixel_at(self, coord_at(self, lastPixel))
                 = pixel_at(b, coord_at(self, lastPixel))
            /\ firstPixel < lastPixel =>
                  /\ pixel_at(self, coord_at(self, firstPixel))
                       = composite(mix_for(self.added, firstPixel),
                                   self.min_brightness, self.total_bytes)
                  /\ \A p \in (firstPixel + 1)..(lastPixel - 1) :
                        pixel_at(self, coord_at(self, p))
                          = composite(whole, self.min_brightness, self.total_bytes)

(* A fill that returned and spans a first, an intermediate and a last      *)
(* pixel.                                                                  *)
C10_Witness ==
    /\ phase = "grid" /\ lastCall.op = "fill" /\ lastCall.raised = "none"
    /\ LET b == Val(lastCall.before)
           firstPixel == (lastCall.first_byte * b.num_steps) \div b.total_bytes
       IN  /\ firstPixel + 1 < self.linear
           /\ b.pixel_mix # <<>>
           /\ b.linear = firstPixel


(* The fill f overlaps the byte range of pixel p,                          *)
(* [p * bytes_per_pixel, (p + 1) * bytes_per_pixel).                       *)
Overlaps(s, f, p) ==
    /\ f.first_byte * s.num_steps < (p + 1) * s.total_bytes
    /\ p * s.total_bytes < (f.first_byte + f.length) * s.num_steps

(* What the compositor gives for everything ever added for pixel p.        *)
composite_of(s, p) == composite(mix_for(s.added, p), s.min_brightness, s.total_bytes)

(* The fills that returned and have pixel p strictly between their first   *)
(* and last pixel.                                                         *)
PaintedBy(s, p) ==
    {i \in 1..Len(fills) :
        /\ fills[i].raised = "none"
        /\ (fills[i].first_byte * s.num_steps) \div s.total_bytes < p
        /\ p < ((fills[i].first_byte + fills[i].length - 1) * s.num_steps)
                  \div s.total_bytes}

(* What a pixel the cursor has left holds: the composite of its entries,   *)
(* or of the one entry (color, used, coverage 1) of the fill that painted  *)
(* it as an intermediate pixel, or black.                                  *)
left_pixel(s, p) ==
    IF mix_for(s.added, p) # <<>> THEN composite_of(s, p)
    ELSE IF PaintedBy(s, p) # {}
    THEN LET f == fills[CHOOSE i \in PaintedBy(s, p) : TRUE]
         IN  composite(<<[color |-> f.color, used_pct |-> f.used_pct,
                          pixel_pct |-> s.total_bytes]>>,
                       s.min_brightness, s.total_bytes)
    ELSE black

(* C11: after any contract-obeying fills, and after finalization, every    *)
(* pixel whose byte range no fill overlaps is black; a pixel the cursor    *)
(* has passed with no mix entries is unchanged (black), a pixel the cursor *)
(* has left with entries holds their composite, the pixel under the cursor *)
(* is written only by finalization, and pixels ahead are untouched.        *)
C11_UnfilledStaysBlack ==
    phase = "grid" =>
        \A p \in 0..(self.num_steps - 1) :
            LET cell == pixel_at(self, coord_at(self, p))
                mix == mix_for(self.added, p)
            IN  /\ (\A i \in 1..Len(fills) : ~Overlaps(self, fills[i], p)) => cell = black
                /\ p < self.linear => cell = left_pixel(self, p)
                /\ p > self.linear => (mix = <<>> /\ cell = black)
                /\ p = self.linear =>
                      IF self.finished
                      THEN /\ self.pixel_mix = <<>>
                           /\ cell = left_pixel(self, p)
                      ELSE /\ self.pixel_mix = mix
                           /\ cell = black

(* A finalized grid where the cursor has passed a painted pixel and then a *)
(* pixel no fill overlaps.                                                 *)
C11_Witness ==
    /\ phase = "grid" /\ self.finished
    /\ \E p \in 1..(self.num_steps - 1), q \in 0..(self.num_steps - 1) :
          /\ q < p /\ p < self.linear
          /\ \A i \in 1..Len(fills) : ~Overlaps(self, fills[i], p)
          /\ pixel_at(self, coord_at(self, p)) = black
          /\ pixel_at(self, coord_at(self, q)) # black
          /\ pixel_at(self, coord_at(self, self.linear)) # black


contributed(s, b, first_pixel, last_pixel, p) ==
    LET new == SubSeq(s.added, Len(b.added) + 1, Len(s.added))
        mine == mix_for(new, p)
    IN  IF mine # <<>> THEN SumSeq([i \in 1..Len(mine) |-> mine[i].pixel_pct])
        ELSE IF first_pixel < p /\ p < last_pixel THEN s.total_bytes
        ELSE 0

(* The part of pixel p's byte range that [first_byte, first_byte + length) *)
(* overlaps, as a numerator over total_bytes.                              *)
overlap(s, first_byte, length, p) ==
    LET lo == IF first_byte * s.num_steps > p * s.total_bytes
              THEN first_byte * s.num_steps ELSE p * s.total_bytes
        hi == IF (first_byte + length) * s.num_steps < (p + 1) * s.total_bytes
              THEN (first_byte + length) * s.num_steps ELSE (p + 1) * s.total_bytes
    IN  IF hi > lo THEN hi - lo ELSE 0

(* C13: every fill of length >= 1 inside [0, total_bytes) that returns has *)
(* contributed coverage fractions that sum to exactly                      *)
(* length / bytes_per_pixel, and to each pixel exactly the fraction of the *)
(* pixel's byte range that [first_byte, first_byte + length) overlaps, for *)
(* whole and fractional bytes_per_pixel alike.                             *)
C13_CoverageConserved ==
    (phase = "grid" /\ lastCall.op = "fill" /\ lastCall.raised = "none") =>
        LET b == Val(lastCall.before)
            first_pixel == (lastCall.first_byte * b.num_steps) \div b.total_bytes
            last_pixel == ((lastCall.first_byte + lastCall.length - 1) * b.num_steps)
                             \div b.total_bytes
            given == [p \in 0..(self.num_steps - 1) |->
                         contributed(self, b, first_pixel, last_pixel, p)]
        IN  /\ SumSeq([i \in 1..self.num_steps |-> given[i - 1]])
                 = lastCall.length * self.num_steps
            /\ \A p \in 0..(self.num_steps - 1) :
                  given[p] = overlap(self, lastCall.first_byte, lastCall.length, p)

(* The same when bytes_per_pixel is a whole number, where it holds.        *)
CoverageConservedWholeBpp ==
    (phase = "grid" /\ self.total_bytes % self.num_steps = 0) => C13_CoverageConserved


MaxBuiltOrder == 2      \* C14 builds the Grid for derived orders up to this

(* 4^k >= total_bytes / granularity, for k of either sign.                 *)
Reaches(k, total_bytes, granularity) ==
    IF k >= 0 THEN granularity * Pow(4, k) >= total_bytes
    ELSE granularity >= total_bytes * Pow(4, -k)

(* ceil(log2(sqrt(total_bytes / granularity))): the least such k.          *)
CeilLog(total_bytes, granularity) ==
    CHOOSE k \in (-3)..12 :
        /\ Reaches(k, total_bytes, granularity)
        /\ ~Reaches(k - 1, total_bytes, granularity)

(* C14: with order unset, for every total_bytes >= 1 and granularity >= 1, *)
(* total_bytes < granularity included, choose_order_size derives           *)
(* min(10, ceil(log2(sqrt(total_bytes / granularity)))) (clamped to a      *)
(* smaller given size) and returns an integer order in 0..10, and the Grid *)
(* built from it has width = height = 2^order >= 1 and bytes_per_pixel > 0.*)
C14_DerivedOrderInRange ==
    (chooseRes # None /\ IsNone(Val(chooseArgs).order)) =>
        LET a == Val(chooseArgs)
            r == Val(chooseRes)
            derived == Min(10, CeilLog(a.total_bytes, a.default_granularity))
        IN  /\ r.raised = "none"
            /\ r.order = IF ~IsNone(a.size) /\ Val(a.size) < derived
                         THEN Val(a.size) ELSE derived
            /\ r.order \in 0..10
            /\ r.order <= MaxBuiltOrder =>
                  LET G == Grid(a.order, a.size, a.total_bytes, a.default_granularity,
                                None, None)
                  IN  /\ G.raised = "none"
                      /\ G.width = Pow(2, r.order) /\ G.height = Pow(2, r.order)
                      /\ G.width >= 1
                      /\ G.total_bytes > 0 /\ G.num_steps > 0

(* The same when total_bytes * 4 > granularity, where it holds.            *)
DerivedOrderInRangeUnlessTiny ==
    (chooseRes # None
        /\ Val(chooseArgs).total_bytes * 4 > Val(chooseArgs).default_granularity)
    => C14_DerivedOrderInRange

=============================================================================
